---- MODULE Spec2Model ----
(***************************************************************************)
(* Inventory routing problem for perishable goods (Soysal et al. 2015) as  *)
(* built by inventory_routing_problem.ipynb: the notebook's cells, run top *)
(* to bottom, declare the decision variables, assemble the linear          *)
(* constraints (2)-(5), (7)-(10), (21) into a pulp problem, hand it to the *)
(* solver and print the returned assignment.                               *)
(*                                                                         *)
(* A linear expression is a record [coef, const] (pulp's                   *)
(* LpAffineExpression: a variable -> coefficient map plus a constant); a   *)
(* constraint is [e, sense] and reads "e sense 0" (pulp's LpConstraint).   *)
(* The solver is external: Solve returns any assignment of the declared    *)
(* variables that satisfies every constraint of the problem (the optimal   *)
(* one is among them), with integer values inside a bounded box.           *)
(***************************************************************************)
EXTENDS Integers, Sequences, FiniteSets, TLC

\* ------------------------------------------------------------------ bounds
MaxV == 3            \* nodes (depot + customers) of the largest instance
MaxDeliveries == 3   \* delivery variables Q[i][k][t] of the largest instance
MaxCap == 1          \* largest vehicle capacity c
MaxDemand == 1       \* largest mean demand d_mu[i][t]
MaxQty == 2          \* largest value of a continuous variable in an assignment

\* Za = stats.norm.ppf(loc=0, scale=1, q=alpha) = 1.64 for alpha = 0.95, in hundredths
ZaCenti == 164
\* the demand-uncertainty coefficient C in tenths: 0 (no uncertainty) and 0.1
CValues == {0, 1}

VARIABLES pc, V, K, T, c, m, C, d_mu, right_of_const_21,
          variables, constraints, objective, result_status, sol, printed

vars == <<pc, V, K, T, c, m, C, d_mu, right_of_const_21,
          variables, constraints, objective, result_status, sol, printed>>

\* ------------------------------------------------------------ index ranges
range_i == 0 .. V - 1
range_j == 0 .. V - 1
range_i_ == 1 .. V - 1
range_j_ == 1 .. V - 1
range_k == 1 .. K
range_t == 1 .. T
\* python's range(a, b)
range(a, b) == a .. b - 1

\* ------------------------------------------------------ decision variables
X(i, j, k, t) == <<"X", i, j, k, t>>
F(i, j, k, t) == <<"F", i, j, k, t>>
I(i, t) == <<"I", i, t>>
Ip(i, t) == <<"Ip", i, t>>
W(i, t) == <<"W", i, t>>
Q(i, k, t) == <<"Q", i, k, t>>

\* a bound is <<>> (None: unbounded) or <<n>>
None == <<>>

\* pulp.LpVariable.dicts(name, indices, lowBound, upBound, cat)
LpVariableDicts(vs, lowBound, upBound, cat) ==
    [v \in vs |-> [lowBound |-> lowBound, upBound |-> upBound, cat |-> cat]]

\* ------------------------------------------------------ linear expressions
ConstE(n) == [coef |-> <<>>, const |-> n]
Term(v) == [coef |-> (v :> 1), const |-> 0]
CoefOf(e, v) == IF v \in DOMAIN e.coef THEN e.coef[v] ELSE 0
AddE(e1, e2) ==
    [coef |-> [v \in (DOMAIN e1.coef) \cup (DOMAIN e2.coef) |->
                  CoefOf(e1, v) + CoefOf(e2, v)],
     const |-> e1.const + e2.const]
ScaleE(n, e) == [coef |-> [v \in DOMAIN e.coef |-> n * e.coef[v]], const |-> n * e.const]
SubE(e1, e2) == AddE(e1, ScaleE(-1, e2))

\* pulp.lpSum over a generator, given as a function index -> expression
RECURSIVE lpSum(_)
lpSum(es) ==
    IF DOMAIN es = {} THEN ConstE(0)
    ELSE LET x == CHOOSE x \in DOMAIN es : TRUE
         IN AddE(es[x], lpSum([y \in (DOMAIN es) \ {x} |-> es[y]]))

\* lhs == rhs, lhs >= rhs, lhs <= rhs on LpAffineExpressions
EqC(lhs, rhs) == [e |-> SubE(lhs, rhs), sense |-> "=="]
GeC(lhs, rhs) == [e |-> SubE(lhs, rhs), sense |-> ">="]
LeC(lhs, rhs) == [e |-> SubE(lhs, rhs), sense |-> "<="]

\* sum of a function's values
RECURSIVE SumF(_)
SumF(f) ==
    IF DOMAIN f = {} THEN 0
    ELSE LET x == CHOOSE x \in DOMAIN f : TRUE
         IN f[x] + SumF([y \in (DOMAIN f) \ {x} |-> f[y]])

\* the value of an expression under an assignment
Value(e, val) == SumF([v \in DOMAIN e.coef |-> e.coef[v] * val[v]]) + e.const

\* whether an assignment satisfies a constraint
Holds(con, val) ==
    LET x == Value(con.e, val)
    IN CASE con.sense = "==" -> x = 0
         [] con.sense = ">=" -> x >= 0
         [] con.sense = "<=" -> x <= 0

\* ------------------------------------------------ chance-constraint bound
\* the least integer n >= sqrt(S) * C * Za, for C = cc tenths: with integer
\* delivered and wasted quantities "left >= x" and "left >= ceil(x)" are the
\* same constraint
SafetyMargin(cc, S) ==
    CHOOSE n \in 0 .. S + 1 :
        /\ n * n * 1000000 >= S * (cc * ZaCenti) * (cc * ZaCenti)
        /\ n > 0 => (n - 1) * (n - 1) * 1000000 < S * (cc * ZaCenti) * (cc * ZaCenti)

\* Rhs21 with the sums one period short: range(1, t) for range(1, t+1)
Rhs21OneShort(d, cc, i, t) ==
    SumF([s \in range(1, t) |-> d[i][s]])
        + SafetyMargin(cc, SumF([s \in range(1, t) |-> d[i][s] * d[i][s]]))

\* sum(d[i][s] for s in range(1, t+1))
\*     + np.sqrt(sum(d[i][s]**2 for s in range(1, t+1))) * C * Za
Rhs21(d, cc, i, t) ==
    SumF([s \in range(1, t + 1) |-> d[i][s]])
        + SafetyMargin(cc, SumF([s \in range(1, t + 1) |-> d[i][s] * d[i][s]]))

\* right_of_const_21[i][t] for a customer i and a period t
RightOfConst21(i, t) == Rhs21(d_mu, C, i, t)

\* --------------------------------------------------- constraint families
Named(name, con) == [name |-> name, e |-> con.e, sense |-> con.sense]

\* X[i][i][k][t] == 0
DiagonalX ==
    { Named(<<"X", i, k, t>>, EqC(Term(X(i, i, k, t)), ConstE(0))) :
        t \in range_t, k \in range_k, i \in range_i }

\* F[i][i][k][t] == 0
DiagonalF ==
    { Named(<<"F", i, k, t>>, EqC(Term(F(i, i, k, t)), ConstE(0))) :
        t \in range_t, k \in range_k, i \in range_i }

\* (2) expected inventory level of each customer in each period
Constraints2 ==
    { Named(<<"(2)", i, t>>,
            EqC(Term(I(i, t)),
                SubE(lpSum([sk \in range(1, t + 1) \X range_k |-> Term(Q(i, sk[2], sk[1]))]),
                     lpSum([s \in range(1, t) |-> AddE(ConstE(d_mu[i][s]), Term(W(i, s)))])))) :
        t \in range_t, i \in range_i_ }

\* (3) left out for the last period: range(1, T) for range_t
Constraints3ButLast ==
    { Named(<<"(3)", i, t>>, GeC(Term(Ip(i, t)), Term(I(i, t)))) :
        t \in range(1, T), i \in range_i_ }

\* (3) Ip, the inventory the holding cost is charged on
Constraints3 ==
    { Named(<<"(3)", i, t>>, GeC(Term(Ip(i, t)), Term(I(i, t)))) :
        t \in range_t, i \in range_i_ }

\* (4) without the else branch (5): W[i][t] is left free for t < m
Constraints45NoElse ==
    { Named(<<"(4)", it[1], it[2]>>,
            GeC(Term(W(it[1], it[2])),
                SubE(SubE(Term(I(it[1], it[2] - m + 1)),
                          lpSum([a \in range(it[2] - m + 2, it[2] + 1) |->
                                    ConstE(d_mu[it[1]][a])])),
                     lpSum([a \in range(it[2] - m + 2, it[2]) |-> Term(W(it[1], a))])))) :
        it \in {q \in range_i_ \X range_t : q[2] >= m} }

\* (4) with the demand summed from one period too early: range(t-m+1, t+1)
Constraints45DemandEarly ==
    { IF t >= m
      THEN Named(<<"(4)", i, t>>,
                 GeC(Term(W(i, t)),
                     SubE(SubE(Term(I(i, t - m + 1)),
                               lpSum([a \in range(t - m + 1, t + 1) |-> ConstE(d_mu[i][a])])),
                          lpSum([a \in range(t - m + 2, t) |-> Term(W(i, a))]))))
      ELSE Named(<<"(5)", i, t>>, EqC(Term(W(i, t)), ConstE(0))) :
        t \in range_t, i \in range_i_ }

\* (4), (5) expected waste of each customer in each period
Constraints45 ==
    { IF t >= m
      THEN Named(<<"(4)", i, t>>,
                 GeC(Term(W(i, t)),
                     SubE(SubE(Term(I(i, t - m + 1)),
                               lpSum([a \in range(t - m + 2, t + 1) |-> ConstE(d_mu[i][a])])),
                          lpSum([a \in range(t - m + 2, t) |-> Term(W(i, a))]))))
      ELSE Named(<<"(5)", i, t>>, EqC(Term(W(i, t)), ConstE(0))) :
        t \in range_t, i \in range_i_ }

\* (7) left out for the first customer: range(2, V) for range_j_
Constraints7ButFirst ==
    { LET left == lpSum([i \in range_i |-> IF i # j THEN Term(X(i, j, k, t)) ELSE ConstE(0)])
          right == lpSum([i \in range_i |-> IF i # j THEN Term(X(j, i, k, t)) ELSE ConstE(0)])
      IN Named(<<"(7)", j, k, t>>, EqC(left, right)) :
        t \in range_t, k \in range_k, j \in range(2, V) }

\* (7) as many vehicles arrive at a customer as leave it
Constraints7 ==
    { LET left == lpSum([i \in range_i |-> IF i # j THEN Term(X(i, j, k, t)) ELSE ConstE(0)])
          right == lpSum([i \in range_i |-> IF i # j THEN Term(X(j, i, k, t)) ELSE ConstE(0)])
      IN Named(<<"(7)", j, k, t>>, EqC(left, right)) :
        t \in range_t, k \in range_k, j \in range_j_ }

\* (8) for the customers only: range_i_ for range_i
Constraints8CustomersOnly ==
    { Named(<<"(8)", i, k, t>>,
            LeC(lpSum([j \in range_j |-> IF i # j THEN Term(X(i, j, k, t)) ELSE ConstE(0)]),
                ConstE(1))) :
        t \in range_t, k \in range_k, i \in range_i_ }

\* (8) a vehicle leaves each node at most once
Constraints8 ==
    { Named(<<"(8)", i, k, t>>,
            LeC(lpSum([j \in range_j |-> IF i # j THEN Term(X(i, j, k, t)) ELSE ConstE(0)]),
                ConstE(1))) :
        t \in range_t, k \in range_k, i \in range_i }

\* (9) left out for the first customer: range(2, V) for range_i_
Constraints9ButFirst ==
    { LET left == lpSum([j \in range_j |-> IF i # j THEN Term(F(i, j, k, t)) ELSE ConstE(0)])
          right == SubE(lpSum([j \in range_j |->
                                  IF i # j THEN Term(F(j, i, k, t)) ELSE ConstE(0)]),
                        Term(Q(i, k, t)))
      IN Named(<<"(9)", i, k, t>>, EqC(left, right)) :
        t \in range_t, k \in range_k, i \in range(2, V) }

\* (9) the load drops by what is delivered at the customer
Constraints9 ==
    { LET left == lpSum([j \in range_j |-> IF i # j THEN Term(F(i, j, k, t)) ELSE ConstE(0)])
          right == SubE(lpSum([j \in range_j |->
                                  IF i # j THEN Term(F(j, i, k, t)) ELSE ConstE(0)]),
                        Term(Q(i, k, t)))
      IN Named(<<"(9)", i, k, t>>, EqC(left, right)) :
        t \in range_t, k \in range_k, i \in range_i_ }

\* (10) coupled to the edge itself: X[i][j] for X[j][i]
Constraints10SameEdge ==
    { LET left == Term(F(ij[1], ij[2], k, t))
          right == ScaleE(c, Term(X(ij[1], ij[2], k, t)))
      IN Named(<<"(10)", ij[1], ij[2], k, t>>, LeC(left, right)) :
        t \in range_t, k \in range_k,
        ij \in {p \in range_i \X range_j : p[1] # p[2]} }

\* (10) capacity
Constraints10 ==
    { LET left == Term(F(ij[1], ij[2], k, t))
          right == ScaleE(c, Term(X(ij[2], ij[1], k, t)))
      IN Named(<<"(10)", ij[1], ij[2], k, t>>, LeC(left, right)) :
        t \in range_t, k \in range_k,
        ij \in {p \in range_i \X range_j : p[1] # p[2]} }

\* (21) service level on the stock-out probability at the end of each period
Constraints21 ==
    { LET left == SubE(lpSum([sk \in range(1, t + 1) \X range_k |->
                                 Term(Q(i, sk[2], sk[1]))]),
                       lpSum([s \in range(1, t) |-> Term(W(i, s))]))
      IN Named(<<"(21)", i, t>>, GeC(left, ConstE(right_of_const_21[i][t]))) :
        t \in range_t, i \in range_i_ }

\* ------------------------------------------------------------- the solver
\* the values the solver may give a declared variable
Domain(decl) ==
    IF decl.cat = "Binary" THEN 0 .. 1
    ELSE (IF decl.lowBound = None THEN -MaxQty ELSE decl.lowBound[1])
            .. (IF decl.upBound = None THEN MaxQty ELSE decl.upBound[1])

\* search order of the variables: by period, routes before loads before
\* deliveries before stocks (any order yields the same set of assignments)
Rank(v) ==
    CASE v[1] = "X" -> 1 [] v[1] = "F" -> 2 [] v[1] = "Q" -> 3
      [] v[1] = "I" -> 4 [] v[1] = "W" -> 5 [] v[1] = "Ip" -> 6
SearchKey(v) == v[Len(v)] * 100 + (IF Len(v) = 5 THEN v[4] * 10 ELSE 90) + Rank(v)

RECURSIVE SetToSeq(_)
SetToSeq(S) ==
    IF S = {} THEN <<>>
    ELSE LET x == CHOOSE x \in S : TRUE IN <<x>> \o SetToSeq(S \ {x})

SearchOrder(decls) ==
    SortSeq(SetToSeq(DOMAIN decls), LAMBDA a, b : SearchKey(a) < SearchKey(b))

\* a constraint over positions of the search order: its terms
\* <<position, coefficient>>, its constant and its sense
Compile(con, order) ==
    [terms |-> SetToSeq({<<n, con.e.coef[order[n]]>> :
                            n \in {q \in 1 .. Len(order) : order[q] \in DOMAIN con.e.coef}}),
     const |-> con.e.const,
     sense |-> con.sense]

\* the position at which every variable of a compiled constraint has a value
LastPosition(cc) ==
    IF cc.terms = <<>> THEN 0
    ELSE CHOOSE n \in {cc.terms[q][1] : q \in 1 .. Len(cc.terms)} :
            \A q \in 1 .. Len(cc.terms) : cc.terms[q][1] <= n

RECURSIVE SumTerms(_, _, _)
SumTerms(terms, vals, n) ==
    IF n = 0 THEN 0 ELSE terms[n][2] * vals[terms[n][1]] + SumTerms(terms, vals, n - 1)

\* Holds, for a compiled constraint and the values of the search order
HoldsAt(cc, vals) ==
    LET x == SumTerms(cc.terms, vals, Len(cc.terms)) + cc.const
    IN CASE cc.sense = "==" -> x = 0
         [] cc.sense = ">=" -> x >= 0
         [] cc.sense = "<=" -> x <= 0

\* the value sequences over positions 1..Len(doms) that extend a sequence of
\* partial (over positions 1..n-1) and satisfy the constraints due[q], those
\* whose variables all have a value at position q
RECURSIVE Extend(_, _, _, _)
Extend(partial, n, doms, due) ==
    IF n > Len(doms) THEN partial
    ELSE Extend({Append(p[1], p[2]) :
                    p \in {q \in partial \X doms[n] :
                              \A cc \in due[n] : HoldsAt(cc, Append(q[1], q[2]))}},
                n + 1, doms, due)

\* every assignment of the declared variables that satisfies every
\* constraint, as the sequence of its values in the search order
Solutions(decls, cons, order) ==
    LET ccs == {Compile(con, order) : con \in cons}
        doms == [n \in 1 .. Len(order) |-> Domain(decls[order[n]])] @@ <<>>
        due == [n \in 1 .. Len(order) |-> {cc \in ccs : LastPosition(cc) = n}] @@ <<>>
    IN IF \A cc \in ccs : LastPosition(cc) = 0 => HoldsAt(cc, <<>>)
       THEN Extend({<<>>}, 1, doms, due)
       ELSE {}

\* the position of each variable in the search order
Positions(order) ==
    [v \in {order[n] : n \in 1 .. Len(order)} |->
        CHOOSE n \in 1 .. Len(order) : order[n] = v] @@ <<>>

\* the assignment variable -> value of a sequence of values
Assignment(pos, vals) == [v \in DOMAIN pos |-> vals[pos[v]]]

\* no variable has a value (varValue is None)
NoValues == <<>>

\* pulp.LpStatus
LpStatusNotSolved == 0
LpStatusOptimal == 1
LpStatusInfeasible == -1

\* ---------------------------------------------------------------- actions
\* the instances: V nodes, K vehicles, T periods
Shapes ==
    {s \in (2 .. MaxV) \X (1 .. MaxDeliveries) \X (1 .. MaxDeliveries) :
        (s[1] - 1) * s[2] * s[3] <= MaxDeliveries}

\* the demand tables of an instance: row 0 (the depot) and column 0 are 0
DemandTables(nV, nT) ==
    {d \in [0 .. nV - 1 -> [0 .. nT -> 0 .. MaxDemand]] :
        /\ \A t \in 0 .. nT : d[0][t] = 0
        /\ \A i \in 0 .. nV - 1 : d[i][0] = 0}

\* the state once the parameter cells have run
Init ==
    /\ pc = "bounds"
    /\ \E s \in Shapes :
         /\ V = s[1] /\ K = s[2] /\ T = s[3]
         /\ d_mu \in DemandTables(s[1], s[3])
    /\ c \in 1 .. MaxCap
    /\ m \in 1 .. T + 1
    /\ C \in CValues
    /\ right_of_const_21 = <<>>
    /\ variables = <<>>
    /\ constraints = {}
    /\ objective = <<>>
    /\ result_status = LpStatusNotSolved
    /\ sol = NoValues
    /\ printed = <<>>

\* right_of_const_21 = np.zeros([V, T+1]), filled for customers and periods
ComputeBounds ==
    /\ pc = "bounds"
    /\ right_of_const_21' =
          [i \in range_i |-> [t \in 0 .. T |->
              IF i \in range_i_ /\ t \in range_t THEN RightOfConst21(i, t) ELSE 0]]
    /\ pc' = "routing_variables"
    /\ UNCHANGED <<V, K, T, c, m, C, d_mu, variables, constraints, objective,
                   result_status, sol, printed>>

\* problem = LpProblem; X and F with their diagonals forced to 0
DeclareRoutingVariables ==
    /\ pc = "routing_variables"
    /\ variables' =
          LpVariableDicts({X(i, j, k, t) : i \in range_i, j \in range_j,
                                           k \in range_k, t \in range_t}, None, None, "Binary")
          @@ LpVariableDicts({F(i, j, k, t) : i \in range_i, j \in range_j,
                                              k \in range_k, t \in range_t}, <<0>>, None, "Continuous")
    /\ constraints' = DiagonalX \cup DiagonalF
    /\ pc' = "inventory_variables"
    /\ UNCHANGED <<V, K, T, c, m, C, d_mu, right_of_const_21, objective,
                   result_status, sol, printed>>

\* I (free), Ip, W, Q (all >= 0)
DeclareInventoryVariables ==
    /\ pc = "inventory_variables"
    /\ variables' =
          variables
          @@ LpVariableDicts({I(i, t) : i \in range_i_, t \in range_t}, None, None, "Continuous")
          @@ LpVariableDicts({Ip(i, t) : i \in range_i_, t \in range_t}, <<0>>, None, "Continuous")
          @@ LpVariableDicts({W(i, t) : i \in range_i_, t \in range_t}, <<0>>, None, "Continuous")
          @@ LpVariableDicts({Q(i, k, t) : i \in range_i_, k \in range_k, t \in range_t},
                             <<0>>, None, "Continuous")
    /\ pc' = "objective"
    /\ UNCHANGED <<V, K, T, c, m, C, d_mu, right_of_const_21, constraints, objective,
                   result_status, sol, printed>>

\* the objective (1): the variables each cost term charges (their positive
\* real coefficients h, p, fuel and wage rates are not modelled)
SetObjective ==
    /\ pc = "objective"
    /\ objective' =
          [inventory_cost |-> {Ip(i, t) : i \in range_i_, t \in range_t},
           waste_cost |-> {W(i, t) : i \in range_i_, t \in range(m, T + 1)},
           fuel_cost |-> {X(p[1], p[2], k, t) : p \in {q \in range_i \X range_j : q[1] # q[2]},
                                               k \in range_k, t \in range_t}
                         \cup {F(p[1], p[2], k, t) :
                                  p \in {q \in range_i \X range_j : q[1] # q[2]},
                                  k \in range_k, t \in range_t},
           driver_cost |-> {X(p[1], p[2], k, t) :
                               p \in {q \in range_i \X range_j : q[1] # q[2]},
                               k \in range_k, t \in range_t}]
    /\ pc' = "constraints"
    /\ UNCHANGED <<V, K, T, c, m, C, d_mu, right_of_const_21, variables, constraints,
                   result_status, sol, printed>>

\* the constraints cell: (2), (3), (4)/(5), (7), (8), (9), (10), (21)
AddConstraints ==
    /\ pc = "constraints"
    /\ constraints' = constraints \cup Constraints2 \cup Constraints3 \cup Constraints45
                        \cup Constraints7 \cup Constraints8 \cup Constraints9
                        \cup Constraints10 \cup Constraints21
    /\ pc' = "solve"
    /\ UNCHANGED <<V, K, T, c, m, C, d_mu, right_of_const_21, variables, objective,
                   result_status, sol, printed>>

\* result_status = problem.solve(solver=PULP_CBC_CMD()): the solver gives
\* the variables an assignment that satisfies the constraints when one exists,
\* and reports the problem infeasible otherwise
Solve ==
    /\ pc = "solve"
    /\ \E order \in {SearchOrder(variables)} :
       \E pos \in {Positions(order)}, sols \in {Solutions(variables, constraints, order)} :
          \/ /\ sols = {}
             /\ sol' = NoValues
             /\ result_status' = LpStatusInfeasible
          \/ \E vals \in sols :
               /\ sol' = Assignment(pos, vals)
               /\ result_status' = LpStatusOptimal
    /\ pc' = "print_status"
    /\ UNCHANGED <<V, K, T, c, m, C, d_mu, right_of_const_21, variables, constraints,
                   objective, printed>>

\* a printing cell: it runs whatever the solver's status was
PrintCell(at, next, output) ==
    /\ pc = at
    /\ printed' = printed @@ (at :> output)
    /\ pc' = next
    /\ UNCHANGED <<V, K, T, c, m, C, d_mu, right_of_const_21, variables, constraints,
                   objective, result_status, sol>>

\* pulp.value of what a cell prints: without values (varValue None) it is None
ValueOr(output) == IF sol = NoValues THEN None ELSE output

\* print(pulp.LpStatus[result_status], pulp.value(problem.objective), ...)
PrintStatus == PrintCell("print_status", "print_costs", <<result_status>>)

\* the four cost terms and their sum (the values, being real, are not modelled)
PrintCosts == PrintCell("print_costs", "print_routes", ValueOr(DOMAIN objective))

\* the edges (t, k, i, j) with pulp.value(X[i][j][k][t]) == 1
PrintRoutes ==
    PrintCell("print_routes", "print_waste",
              ValueOr({r \in range_t \X range_k \X range_i \X range_j :
                          sol[X(r[3], r[4], r[2], r[1])] = 1}))

\* pulp.value(W[i][T]) * p of each customer: the quantity the cost is charged on
PrintWaste ==
    PrintCell("print_waste", "print_inventory", ValueOr([i \in range_i_ |-> sol[W(i, T)]]))

\* pulp.value(Ip[i][T]) * h of each customer: the quantity the cost is charged on
PrintInventory ==
    PrintCell("print_inventory", "done", ValueOr([i \in range_i_ |-> sol[Ip(i, T)]]))

Next ==
    \/ ComputeBounds
    \/ DeclareRoutingVariables
    \/ DeclareInventoryVariables
    \/ SetObjective
    \/ AddConstraints
    \/ Solve
    \/ PrintStatus
    \/ PrintCosts
    \/ PrintRoutes
    \/ PrintWaste
    \/ PrintInventory

Spec == Init /\ [][Next]_vars

\* ----------------------------------------------------------------- claims
\* the solver returned an assignment
Solved == result_status = LpStatusOptimal

\* the constraints cell has run
Assembled == pc \notin {"bounds", "routing_variables", "inventory_variables",
                        "objective", "constraints"}

\* selected edges of vehicle k in period t into and out of node n
InDegree(n, k, t) == SumF([j \in range_j \ {n} |-> sol[X(j, n, k, t)]])
OutDegree(n, k, t) == SumF([j \in range_j \ {n} |-> sol[X(n, j, k, t)]])

\* what vehicle k delivers in period t
Delivered(k, t) == SumF([i \in range_i_ |-> sol[Q(i, k, t)]])

\* the ordered pairs of distinct nodes
Edges == {p \in range_i \X range_j : p[1] # p[2]}

Max(a, b) == IF a >= b THEN a ELSE b

\* the solver's assignment satisfies every constraint of the problem
SolutionSatisfiesConstraints ==
    Solved => \A con \in constraints : Holds(con, sol)

\* C1: in every assignment that satisfies the constraints, no load F[i][j][k][t]
\* (i # j) exceeds the capacity c, and the load is 0 whenever the reverse
\* route indicator X[j][i][k][t] is 0
TheoremC1 ==
    Solved =>
        \A k \in range_k, t \in range_t, p \in Edges :
            /\ sol[F(p[1], p[2], k, t)] <= c
            /\ sol[X(p[2], p[1], k, t)] = 0 => sol[F(p[1], p[2], k, t)] = 0

\* a route 0 -> 1 -> 2 -> 0 whose loads run against it: the edge 2 -> 1 carries
\* the full capacity, the edge 1 -> 2 (reverse indicator 0) carries nothing
WitnessC1 ==
    /\ Solved /\ V = 3
    /\ sol[X(1, 2, 1, 1)] = 1 /\ sol[X(2, 1, 1, 1)] = 0
    /\ sol[F(2, 1, 1, 1)] = c /\ sol[F(1, 2, 1, 1)] = 0

\* C2: in every assignment that satisfies the constraints, for every vehicle and
\* period as many selected edges enter a node as leave it, at every node, the
\* depot included (constraint (7) is generated for the customers only)
TheoremC2 ==
    Solved =>
        \A k \in range_k, t \in range_t, n \in range_i :
            InDegree(n, k, t) = OutDegree(n, k, t)

\* a vehicle that leaves the depot, and so returns to it
WitnessC2 ==
    /\ Solved
    /\ \E k \in range_k, t \in range_t :
         OutDegree(0, k, t) = 1 /\ InDegree(0, k, t) = 1 /\ sol[X(0, V - 1, k, t)] = 1

\* C3: for every customer and every period t < m (t <= T) the waste W[i][t] is 0
\* in every assignment that satisfies the constraints, and no waste inequality
\* (4) is generated for such a period
TheoremC3 ==
    /\ Solved => \A i \in range_i_, t \in range_t : t < m => sol[W(i, t)] = 0
    /\ \A con \in constraints : con.name[1] = "(4)" => con.name[3] >= m

\* stock is held in periods 1 and 2 of a shelf life of 3 periods without
\* waste, and wasted in period 3
WitnessC3 ==
    /\ Solved /\ T = 3 /\ m = 3
    /\ sol[I(1, 1)] > 0 /\ sol[W(1, 1)] = 0 /\ sol[W(1, 2)] = 0 /\ sol[W(1, 3)] > 0

\* C4: Ip[i][t] >= max(0, I[i][t]) in every assignment that satisfies the
\* constraints, I[i][t] being declared without a lower bound
TheoremC4 ==
    /\ Solved => \A i \in range_i_, t \in range_t : sol[Ip(i, t)] >= Max(0, sol[I(i, t)])
    /\ \A v \in DOMAIN variables : v[1] = "I" => variables[v].lowBound = None

\* one customer's Ip equals its positive stock, another period's exceeds it
WitnessC4 ==
    /\ Solved /\ T >= 2
    /\ sol[I(1, 1)] > 0 /\ sol[Ip(1, 1)] = sol[I(1, 1)]
    /\ sol[Ip(1, 2)] > Max(0, sol[I(1, 2)])

\* the demand table of one customer and one period with mean demand 100
SingleCustomerDemand == [i \in 0 .. 1 |-> [t \in 0 .. 1 |-> IF i = 1 /\ t = 1 THEN 100 ELSE 0]]

\* C5: with C = 0 the bound right_of_const_21[i][t] is the cumulative mean
\* demand, and every assignment that satisfies the constraints delivers, net of
\* earlier waste, at least that much; for one customer and one period of mean
\* demand 100 the bound is 100
TheoremC5 ==
    /\ (C = 0 /\ pc # "bounds") =>
          \A i \in range_i_, t \in range_t :
              right_of_const_21[i][t] = SumF([s \in 1 .. t |-> d_mu[i][s]])
    /\ (C = 0 /\ Solved) =>
          \A i \in range_i_, t \in range_t :
              SumF([sk \in (1 .. t) \X range_k |-> sol[Q(i, sk[2], sk[1])]])
                  - SumF([s \in 1 .. t - 1 |-> sol[W(i, s)]])
                >= SumF([s \in 1 .. t |-> d_mu[i][s]])
    /\ Rhs21(SingleCustomerDemand, 0, 1, 1) = 100

\* one customer, one vehicle, one period, C = 0: the delivery meets the demand
WitnessC5 ==
    /\ Solved /\ C = 0 /\ V = 2 /\ K = 1 /\ T = 1
    /\ d_mu[1][1] = MaxDemand /\ right_of_const_21[1][1] = MaxDemand
    /\ sol[Q(1, 1, 1)] = MaxDemand

\* C6: in every assignment that satisfies the constraints, a positive load
\* F[i][j][k][t] (i # j) implies that the same edge is traveled, X[i][j][k][t] = 1
ClaimC6 ==
    Solved =>
        \A k \in range_k, t \in range_t, p \in Edges :
            sol[F(p[1], p[2], k, t)] > 0 => sol[X(p[1], p[2], k, t)] = 1

\* C7: the cost breakdown, the route listing and the per-customer waste and
\* inventory costs are reported only after a solve that returned optimal
ClaimC7 ==
    \A cell \in {"print_costs", "print_routes", "print_waste", "print_inventory"} :
        cell \in DOMAIN printed => result_status = LpStatusOptimal

\* the spoilage inequality of customer i at period t in closed form, as
\* "W[i][t] - bound >= 0"
SpoilageClosedForm(i, t) ==
    [coef |-> [v \in {W(i, t), I(i, t - m + 1)} \cup {W(i, a) : a \in t - m + 2 .. t - 1} |->
                  IF v = I(i, t - m + 1) THEN -1 ELSE 1],
     const |-> SumF([a \in t - m + 2 .. t |-> d_mu[i][a]])]

\* C8: for 1 <= m <= T the spoilage constraints generated are exactly, for each
\* customer i and each period t in m..T, W[i][t] >= I[i][t-m+1]
\* - sum(d_mu[i][a], a in t-m+2..t) - sum(W[i][a], a in t-m+2..t-1); they
\* reference no index outside 1..T, and hold in every assignment that
\* satisfies the constraints (for m = 2 and T = 2: one inequality per
\* customer, at t = 2, with the bound I[i][1] - d_mu[i][2])
TheoremC8 ==
    /\ (Assembled /\ m <= T) =>
          /\ {con \in constraints : con.name[1] = "(4)"}
                = {[name |-> <<"(4)", i, t>>, e |-> SpoilageClosedForm(i, t), sense |-> ">="] :
                      i \in range_i_, t \in m .. T}
          /\ \A con \in constraints : DOMAIN con.e.coef \subseteq DOMAIN variables
    /\ (Solved /\ m <= T) =>
          \A i \in range_i_, t \in m .. T :
              sol[W(i, t)] >= sol[I(i, t - m + 1)]
                                - SumF([a \in t - m + 2 .. t |-> d_mu[i][a]])
                                - SumF([a \in t - m + 2 .. t - 1 |-> sol[W(i, a)]])
    /\ (Assembled /\ m = 2 /\ T = 2) =>
          \A con \in constraints : con.name[1] = "(4)" =>
              /\ con.name[3] = 2
              /\ con.e = [coef |-> (W(con.name[2], 2) :> 1) @@ (I(con.name[2], 1) :> -1),
                          const |-> d_mu[con.name[2]][2]]

\* shelf life 3 over 3 periods: the stock of period 1, with no demand and no
\* waste in between, is the waste of period 3
WitnessC8 ==
    /\ Solved /\ T = 3 /\ m = 3
    /\ sol[I(1, 1)] > 0 /\ d_mu[1][2] = 0 /\ d_mu[1][3] = 0 /\ sol[W(1, 2)] = 0
    /\ sol[W(1, 3)] = sol[I(1, 1)]

\* C9: in every assignment that satisfies the constraints, for every vehicle,
\* period and node (the depot included) at most one outgoing and at most one
\* incoming edge is selected
TheoremC9 ==
    Solved =>
        \A k \in range_k, t \in range_t, n \in range_i :
            OutDegree(n, k, t) <= 1 /\ InDegree(n, k, t) <= 1

\* a tour through the depot and two customers
WitnessC9 ==
    /\ Solved /\ V = 3
    /\ sol[X(0, 1, 1, 1)] = 1 /\ sol[X(1, 2, 1, 1)] = 1 /\ sol[X(2, 0, 1, 1)] = 1

\* C10: in every assignment that satisfies the constraints, a vehicle delivers
\* in a period at most c in total, nothing when it selects no edge into the
\* depot, and to a customer only if it selects an edge out of that customer
TheoremC10 ==
    Solved =>
        \A k \in range_k, t \in range_t :
            /\ Delivered(k, t) <= c
            /\ InDegree(0, k, t) = 0 => Delivered(k, t) = 0
            /\ \A i \in range_i_ : sol[Q(i, k, t)] > 0 => OutDegree(i, k, t) >= 1

\* a vehicle delivers its whole capacity to customer 2 on a tour through both
\* customers
WitnessC10 ==
    /\ Solved /\ V = 3
    /\ Delivered(1, 1) = c /\ sol[Q(2, 1, 1)] = c
    /\ OutDegree(1, 1, 1) = 1 /\ OutDegree(2, 1, 1) = 1 /\ InDegree(0, 1, 1) = 1
====
